---- MODULE Spec2Model ----
(***************************************************************************)
(* A model of enrich_work_values.py: the column resolvers, the SOC-code    *)
(* normalisation, the O*NET Work Values loader (wide and long shapes) and  *)
(* main (column resolution, left merge, output write with retry).          *)
(*                                                                         *)
(* Strings are sequences of one-character strings, so that lower-casing,   *)
(* stripping, regular-expression filtering, slicing, containment and       *)
(* ordering are computed character by character as the code computes them. *)
(***************************************************************************)
EXTENDS Integers, Sequences, FiniteSets, TLC

VARIABLES
    n_pc, n_in, n_out, n_again,
    columns, call, result,
    l_pc, l_src, l_out,
    pc, in_file, ref_file, requested, in_df, found, onet_df, merged,
    attempt, out_path, tried, saved, stdout, exit_code

normVars == <<n_pc, n_in, n_out, n_again>>
colVars == <<columns, call, result>>
loadVars == <<l_pc, l_src, l_out>>
mainVars ==
    <<pc, in_file, ref_file, requested, in_df, found, onet_df, merged,
      attempt, out_path, tried, saved, stdout, exit_code>>
vars == <<normVars, colVars, loadVars, mainVars>>

(***************************************************************************)
(* Characters                                                              *)
(***************************************************************************)
Digits == {"0","1","2","3","4","5","6","7","8","9"}

LowerLetters ==
    {"a","b","c","d","e","f","g","h","i","j","k","l","m",
     "n","o","p","q","r","s","t","u","v","w","x","y","z"}

\* str.lower() on the ASCII letters
lower_map ==
    "A" :> "a" @@ "B" :> "b" @@ "C" :> "c" @@ "D" :> "d" @@ "E" :> "e" @@
    "F" :> "f" @@ "G" :> "g" @@ "H" :> "h" @@ "I" :> "i" @@ "J" :> "j" @@
    "K" :> "k" @@ "L" :> "l" @@ "M" :> "m" @@ "N" :> "n" @@ "O" :> "o" @@
    "P" :> "p" @@ "Q" :> "q" @@ "R" :> "r" @@ "S" :> "s" @@ "T" :> "t" @@
    "U" :> "u" @@ "V" :> "v" @@ "W" :> "w" @@ "X" :> "x" @@ "Y" :> "y" @@
    "Z" :> "z"

LowerChar(c) == IF c \in DOMAIN lower_map THEN lower_map[c] ELSE c

Lower(s) == [i \in 1..Len(s) |-> LowerChar(s[i])]

IsSpace(c) == c = " "

IsDigit(c) == c \in Digits

IsCanonChar(c) == c \in LowerLetters \cup Digits

\* str.strip(): leading and trailing whitespace removed
RECURSIVE LStrip(_)
LStrip(s) ==
    IF s # <<>> /\ IsSpace(Head(s)) THEN LStrip(Tail(s)) ELSE s

RECURSIVE RStrip(_)
RStrip(s) ==
    IF s # <<>> /\ IsSpace(s[Len(s)]) THEN RStrip(SubSeq(s, 1, Len(s) - 1)) ELSE s

Strip(s) == RStrip(LStrip(s))

\* Python slice s[a:b] with 0 <= a; b may exceed len(s)
Slice(s, a, b) ==
    LET hi == IF b < Len(s) THEN b ELSE Len(s)
    IN  IF a >= hi THEN <<>> ELSE SubSeq(s, a + 1, hi)

\* "a in k" on strings
IsSubstr(a, k) ==
    \E i \in 0..(Len(k) - Len(a)) : Slice(k, i, i + Len(a)) = a

\* _canon: lower-case, then drop everything outside [a-z0-9]
_canon(s) == SelectSeq(Lower(s), IsCanonChar)

(***************************************************************************)
(* String literals of the program and of the inputs                        *)
(***************************************************************************)
S_SOC_Code == <<"S","O","C"," ","C","o","d","e">>
S_SOC == <<"S","O","C">>
S_Code == <<"C","o","d","e">>
S_SOC_Code_us == <<"S","O","C","_","C","o","d","e">>
S_Occupation_Code == <<"O","c","c","u","p","a","t","i","o","n"," ","C","o","d","e">>
S_OxNET_SOC_Code == <<"O","*","N","E","T","-","S","O","C"," ","C","o","d","e">>
S_OxNET_SOC_Codes == <<"O","*","N","E","T","-","S","O","C"," ","C","o","d","e","s">>
S_ONET_SOC_Code == <<"O","N","E","T"," ","S","O","C"," ","C","o","d","e">>
S_ONET_SOC_Codes == <<"O","N","E","T"," ","S","O","C"," ","C","o","d","e","s">>
S_ONET_dash_SOC_Codes == <<"O","N","E","T","-","S","O","C"," ","C","o","d","e","s">>
S_ONET_dash_SOC_Code == <<"O","N","E","T","-","S","O","C"," ","C","o","d","e">>
S_ONET_Codes == <<"O","N","E","T"," ","C","o","d","e","s">>
S_ONET_Code == <<"O","N","E","T"," ","C","o","d","e">>
S_Job_Title == <<"J","o","b"," ","T","i","t","l","e">>
S_Job_Titles == <<"J","o","b"," ","T","i","t","l","e","s">>
S_HeadCount == <<"H","e","a","d","C","o","u","n","t">>
S_Head_Count == <<"H","e","a","d"," ","C","o","u","n","t">>
S_HC == <<"H","C">>
S_Occupational_Title == <<"O","c","c","u","p","a","t","i","o","n","a","l"," ","T","i","t","l","e">>
S_Occupation_Title == <<"O","c","c","u","p","a","t","i","o","n"," ","T","i","t","l","e">>
S_ONET_Title == <<"O","N","E","T"," ","T","i","t","l","e">>
S_Title == <<"T","i","t","l","e">>
S_Element_Name == <<"E","l","e","m","e","n","t"," ","N","a","m","e">>
S_Data_Value == <<"D","a","t","a"," ","V","a","l","u","e">>
S_Scale_Name == <<"S","c","a","l","e"," ","N","a","m","e">>
S_Scale == <<"S","c","a","l","e">>
S_Date == <<"D","a","t","e">>
S_Achievement == <<"A","c","h","i","e","v","e","m","e","n","t">>
S_Independence == <<"I","n","d","e","p","e","n","d","e","n","c","e">>
S_Recognition == <<"R","e","c","o","g","n","i","t","i","o","n">>
S_Relationships == <<"R","e","l","a","t","i","o","n","s","h","i","p","s">>
S_Support == <<"S","u","p","p","o","r","t">>
S_Working_Conditions == <<"W","o","r","k","i","n","g"," ","C","o","n","d","i","t","i","o","n","s">>
A_achievement == <<"a","c","h","i","e","v","e","m","e","n","t">>
A_independence == <<"i","n","d","e","p","e","n","d","e","n","c","e">>
A_recognition == <<"r","e","c","o","g","n","i","t","i","o","n">>
A_relationship == <<"r","e","l","a","t","i","o","n","s","h","i","p">>
A_relationships == <<"r","e","l","a","t","i","o","n","s","h","i","p","s">>
A_support == <<"s","u","p","p","o","r","t">>
A_workingconditions == <<"w","o","r","k","i","n","g","c","o","n","d","i","t","i","o","n","s">>
A_workconditions == <<"w","o","r","k","c","o","n","d","i","t","i","o","n","s">>
A_workingcondition == <<"w","o","r","k","i","n","g","c","o","n","d","i","t","i","o","n">>
A_workcondition == <<"w","o","r","k","c","o","n","d","i","t","i","o","n">>
S_soc_code_lc == <<"s","o","c","_","c","o","d","e">>
S_SOC_CODE_uc == <<"S","O","C","-","C","O","D","E">>
S_RELATIONSHIPS_uc == <<"R","E","L","A","T","I","O","N","S","H","I","P","S">>
S_Relationship == <<"R","e","l","a","t","i","o","n","s","h","i","p">>
S_Achievement_Score == <<"A","c","h","i","e","v","e","m","e","n","t"," ","(","S","c","o","r","e",")">>
S_Work_Conditions == <<"W","o","r","k"," ","C","o","n","d","i","t","i","o","n","s">>
S_Notes == <<"N","o","t","e","s">>
S_Level == <<"L","e","v","e","l">>
S_13_1081 == <<"1","3","-","1","0","8","1">>
S_131081 == <<"1","3","1","0","8","1">>
S_15_1251 == <<"1","5","-","1","2","5","1">>
S_Interests == <<"I","n","t","e","r","e","s","t","s">>
A_importance == <<"i","m","p","o","r","t","a","n","c","e">>
S_suffix_ONET == <<"_","O","N","E","T">>

(***************************************************************************)
(* norm_soc                                                                *)
(***************************************************************************)
\* A missing cell (None / NaN), for which pd.notna is false
NaN == <<"<NaN>">>

\* Python's None
None == <<"<None>">>

Hyphen == <<"-">>

norm_soc_rest_off_by_one(s0) ==
    LET s      == IF s0 = NaN THEN <<>> ELSE Strip(s0)
        digits == SelectSeq(s, IsDigit)
    IN  IF s = <<>> THEN <<>>
        ELSE IF Len(digits) >= 7 THEN
            LET left == Slice(digits, 0, 2) \o Hyphen \o Slice(digits, 2, 7)
                rest == Slice(digits, 6, Len(digits))
            IN  left \o (IF rest # <<>> THEN Hyphen \o rest ELSE <<>>)
        ELSE IF Len(digits) \in {5, 6} THEN
            Slice(digits, 0, 2) \o Hyphen \o Slice(digits, 2, Len(digits))
        ELSE s

norm_soc(s0) ==
    LET s      == IF s0 = NaN THEN <<>> ELSE Strip(s0)
        digits == SelectSeq(s, IsDigit)
    IN  IF s = <<>> THEN <<>>
        ELSE IF Len(digits) >= 7 THEN
            LET left == Slice(digits, 0, 2) \o Hyphen \o Slice(digits, 2, 7)
                rest == Slice(digits, 7, Len(digits))
            IN  left \o (IF rest # <<>> THEN Hyphen \o rest ELSE <<>>)
        ELSE IF Len(digits) \in {5, 6} THEN
            Slice(digits, 0, 2) \o Hyphen \o Slice(digits, 2, Len(digits))
        ELSE s

(***************************************************************************)
(* norm_soc applied once and twice to every bounded input                  *)
(***************************************************************************)
MaxSocLen == 8
MaxMixedLen == 6

\* "-" stands for every character that is neither a digit nor whitespace
SocChars == {"1", "2", "-", " "}
MixedChars == {"1", "-", " ", ".", "a"}

StringsUpTo(chars, n) == UNION {[1..k -> chars] : k \in 0..n}

SocInputs(maxLen, maxMixed) ==
    StringsUpTo(SocChars, maxLen) \cup StringsUpTo(MixedChars, maxMixed) \cup {NaN}

NormInit ==
    /\ n_pc = "start"
    /\ n_in \in SocInputs(MaxSocLen, MaxMixedLen)
    /\ n_out = None
    /\ n_again = None

NormOnce ==
    /\ n_pc = "start"
    /\ n_out' = norm_soc(n_in)
    /\ n_pc' = "once"
    /\ UNCHANGED <<n_in, n_again>>
    /\ UNCHANGED <<colVars, loadVars, mainVars>>

NormTwice ==
    /\ n_pc = "once"
    /\ n_again' = norm_soc(n_out)
    /\ n_pc' = "twice"
    /\ UNCHANGED <<n_in, n_out>>
    /\ UNCHANGED <<colVars, loadVars, mainVars>>

NormNext == NormOnce \/ NormTwice

\* Canonical shapes: DD-DDD, DD-DDDD, DD-DDDDD and DD-DDDDD-D...
AllDigits(s) == \A i \in 1..Len(s) : IsDigit(s[i])

IsCanonicalSoc(s) ==
    /\ Len(s) >= 6
    /\ AllDigits(SubSeq(s, 1, 2))
    /\ s[3] = "-"
    /\ \/ Len(s) \in 6..8 /\ AllDigits(SubSeq(s, 4, Len(s)))
       \/ /\ Len(s) >= 10
          /\ AllDigits(SubSeq(s, 4, 8))
          /\ s[9] = "-"
          /\ AllDigits(SubSeq(s, 10, Len(s)))

\* C1: norm_soc is idempotent on every input string, and a code already in
\* canonical form (5, 6 or 7+ digits) is returned unchanged.
C1_NormIdempotent ==
    /\ n_pc = "twice" => n_again = n_out
    /\ (n_pc # "start" /\ IsCanonicalSoc(n_in)) => n_out = n_in
    /\ (n_pc = "twice" /\ IsCanonicalSoc(n_out)) => n_again = n_out

\* An input with more than seven digits and separators was normalised twice
C1_Witness ==
    /\ n_pc = "twice"
    /\ Len(SelectSeq(n_in, IsDigit)) > 7
    /\ n_in # n_out
    /\ IsCanonicalSoc(n_out)

(***************************************************************************)
(* Column resolvers                                                        *)
(***************************************************************************)
KeyError == <<"<KeyError>">>

\* [str(c).strip() for c in df.columns]
StripHeaders(cols) == [i \in 1..Len(cols) |-> Strip(cols[i])]

\* want = {_canon(o) for o in options}
WantSet(options) == {_canon(options[j]) : j \in 1..Len(options)}

\* for c in df.columns: if _canon(c) in want: return c
RECURSIVE FirstColumnIn(_, _)
FirstColumnIn(cols, want) ==
    IF cols = <<>> THEN None
    ELSE IF _canon(Head(cols)) \in want THEN Head(cols)
    ELSE FirstColumnIn(Tail(cols), want)

\* the loops swapped: the first option that some header matches decides
RECURSIVE FirstOptionMatched(_, _)
FirstOptionMatched(cols, options) ==
    IF options = <<>> THEN None
    ELSE LET hit == FirstColumnIn(cols, {_canon(Head(options))})
         IN  IF hit # None THEN hit ELSE FirstOptionMatched(cols, Tail(options))

find_col_by_option_order(cols, options) ==
    LET hit == FirstOptionMatched(cols, options)
    IN  IF hit = None THEN KeyError ELSE hit

find_col(cols, options) ==
    LET hit == FirstColumnIn(cols, WantSet(options))
    IN  IF hit = None THEN KeyError ELSE hit

_col_like(cols, options) == FirstColumnIn(cols, WantSet(options))

\* The option lists of the call sites
JOB_OPTS == <<S_Job_Title, S_Job_Titles>>

SOC_OPTS_IN ==
    <<S_SOC_Code, S_SOC, S_Code, S_SOC_Code_us,
      S_OxNET_SOC_Codes, S_OxNET_SOC_Code,
      S_ONET_SOC_Codes, S_ONET_SOC_Code,
      S_ONET_dash_SOC_Codes, S_ONET_dash_SOC_Code,
      S_ONET_Codes, S_ONET_Code>>

HEADCOUNT_OPTS == <<S_HeadCount, S_Head_Count, S_HC>>

OCC_TITLE_OPTS == <<S_Occupational_Title, S_Occupation_Title, S_ONET_Title, S_Title>>

soc_opts ==
    <<S_SOC_Code, S_SOC, S_Code, S_SOC_Code_us, S_Occupation_Code,
      S_OxNET_SOC_Code, S_OxNET_SOC_Codes, S_ONET_SOC_Code, S_ONET_SOC_Codes>>

ELEMENT_OPTS == <<S_Element_Name>>

DATA_VALUE_OPTS == <<S_Data_Value>>

SCALE_OPTS == <<S_Scale_Name, S_Scale>>

DATE_OPTS == <<S_Date>>

(***************************************************************************)
(* The wide-shape value-column search of load_onet_values                  *)
(***************************************************************************)
VALUE_COLS_CANON ==
    <<S_Achievement, S_Independence, S_Recognition,
      S_Relationships, S_Support, S_Working_Conditions>>

VALUE_ALIASES ==
    S_Achievement :> <<A_achievement>> @@
    S_Independence :> <<A_independence>> @@
    S_Recognition :> <<A_recognition>> @@
    S_Relationships :> <<A_relationship, A_relationships>> @@
    S_Support :> <<A_support>> @@
    S_Working_Conditions :>
        <<A_workingconditions, A_workconditions, A_workingcondition, A_workcondition>>

\* A dict as the sequence of its (key, value) items in insertion order;
\* assigning to a key that is present replaces its value and keeps its place
DictKeys(d) == {d[i][1] : i \in 1..Len(d)}

DictGet(d, k) == d[CHOOSE i \in 1..Len(d) : d[i][1] = k][2]

DictPut(d, k, v) ==
    IF k \in DictKeys(d)
    THEN [i \in 1..Len(d) |-> IF d[i][1] = k THEN <<k, v>> ELSE d[i]]
    ELSE Append(d, <<k, v>>)

\* canon_headers = {_canon(c): c for c in onet_df.columns}
RECURSIVE CanonHeadersFrom(_, _)
CanonHeadersFrom(d, cols) ==
    IF cols = <<>> THEN d
    ELSE CanonHeadersFrom(DictPut(d, _canon(Head(cols)), Head(cols)), Tail(cols))

canon_headers(cols) == CanonHeadersFrom(<<>>, cols)

\* for a in aliases: if a in canon_headers: return canon_headers[a]
RECURSIVE ExactAliasHit(_, _)
ExactAliasHit(aliases, ch) ==
    IF aliases = <<>> THEN None
    ELSE IF Head(aliases) \in DictKeys(ch) THEN DictGet(ch, Head(aliases))
    ELSE ExactAliasHit(Tail(aliases), ch)

\* for k, orig in canon_headers.items(): if a in k: return orig
RECURSIVE FirstItemContaining(_, _)
FirstItemContaining(a, items) ==
    IF items = <<>> THEN None
    ELSE IF IsSubstr(a, Head(items)[1]) THEN Head(items)[2]
    ELSE FirstItemContaining(a, Tail(items))

\* for a in aliases: for k, orig in canon_headers.items(): ...
RECURSIVE ContainsAliasHit(_, _)
ContainsAliasHit(aliases, ch) ==
    IF aliases = <<>> THEN None
    ELSE LET hit == FirstItemContaining(Head(aliases), ch)
         IN  IF hit # None THEN hit ELSE ContainsAliasHit(Tail(aliases), ch)

_find_value_col(aliases, ch) ==
    LET exact == ExactAliasHit(aliases, ch)
    IN  IF exact # None THEN exact ELSE ContainsAliasHit(aliases, ch)

\* aliases = [_canon(x) for x in VALUE_ALIASES.get(v, [_canon(v)])]
AliasesOf(v) ==
    LET raw == IF v \in DOMAIN VALUE_ALIASES THEN VALUE_ALIASES[v] ELSE <<_canon(v)>>
    IN  [j \in 1..Len(raw) |-> _canon(raw[j])]

(***************************************************************************)
(* The resolvers called on every bounded header list                       *)
(***************************************************************************)
MaxCols == 2

HeaderPool ==
    {S_SOC_Code, S_soc_code_lc, S_SOC_CODE_uc, S_Code, S_Job_Title,
     S_Relationships, S_RELATIONSHIPS_uc, S_Relationship,
     S_Achievement_Score, S_Work_Conditions, S_Working_Conditions}

HeaderLists(maxCols) == UNION {[1..k -> HeaderPool] : k \in 0..maxCols}

OptionLists ==
    {JOB_OPTS, SOC_OPTS_IN, HEADCOUNT_OPTS, OCC_TITLE_OPTS, soc_opts,
     ELEMENT_OPTS, DATA_VALUE_OPTS, SCALE_OPTS, DATE_OPTS}

NoCall == [fn |-> "none", options |-> <<>>, value |-> <<>>]

ColsInit ==
    /\ columns \in HeaderLists(MaxCols)
    /\ call = NoCall
    /\ result = None

CallFindCol ==
    \E options \in OptionLists :
        /\ call = NoCall
        /\ call' = [fn |-> "find_col", options |-> options, value |-> <<>>]
        /\ result' = find_col(columns, options)
        /\ UNCHANGED columns
        /\ UNCHANGED <<normVars, loadVars, mainVars>>

CallColLike ==
    \E options \in OptionLists :
        /\ call = NoCall
        /\ call' = [fn |-> "_col_like", options |-> options, value |-> <<>>]
        /\ result' = _col_like(columns, options)
        /\ UNCHANGED columns
        /\ UNCHANGED <<normVars, loadVars, mainVars>>

CallFindValueCol ==
    \E n \in 1..Len(VALUE_COLS_CANON) :
        LET v == VALUE_COLS_CANON[n] IN
        /\ call = NoCall
        /\ call' = [fn |-> "_find_value_col", options |-> AliasesOf(v), value |-> v]
        /\ result' = _find_value_col(AliasesOf(v), canon_headers(columns))
        /\ UNCHANGED columns
        /\ UNCHANGED <<normVars, loadVars, mainVars>>

ColsNext == CallFindCol \/ CallColLike \/ CallFindValueCol

\* Positions of the headers whose canonical form equals that of some variant
MatchingPositions(cols, options) ==
    {i \in 1..Len(cols) : \E j \in 1..Len(options) : _canon(cols[i]) = _canon(options[j])}

MinOf(S) == CHOOSE x \in S : \A y \in S : x <= y

SocSpellings == {S_SOC_Code, S_soc_code_lc, S_SOC_CODE_uc}

Respell(cols, i, h) == [cols EXCEPT ![i] = h]

ResolvedAsStated(fn, cols, options, res) ==
    LET m == MatchingPositions(cols, options)
    IN  IF m # {} THEN res = cols[MinOf(m)]
        ELSE res = (IF fn = "find_col" THEN KeyError ELSE None)

\* C6: find_col and _col_like return the first header in column order whose
\* canonical form equals the canonical form of some variant; "SOC Code",
\* "soc_code" and "SOC-CODE" resolve identically (respelling a header leaves
\* the resolved position unchanged); with no match find_col raises the
\* required-column-not-found error and _col_like returns None.
C6_ColumnResolution ==
    call.fn \in {"find_col", "_col_like"} =>
        /\ ResolvedAsStated(call.fn, columns, call.options, result)
        /\ \A i \in 1..Len(columns) : \A h \in SocSpellings :
               columns[i] \in SocSpellings =>
                   LET respelled == Respell(columns, i, h)
                       m == MatchingPositions(columns, call.options)
                       again == IF call.fn = "find_col"
                                THEN find_col(respelled, call.options)
                                ELSE _col_like(respelled, call.options)
                   IN  IF m # {} THEN again = respelled[MinOf(m)]
                       ELSE again = result

\* find_col resolved "Code" ahead of a later "SOC-CODE", against the order
\* of the variants
C6_Witness ==
    /\ call.fn = "find_col"
    /\ call.options = SOC_OPTS_IN
    /\ Len(columns) = 2
    /\ columns[1] = S_Code
    /\ columns[2] = S_SOC_CODE_uc
    /\ result = S_Code

\* Levels of the stated resolution order
ExactPositions(cols, aliases) ==
    {i \in 1..Len(cols) : \E j \in 1..Len(aliases) : _canon(cols[i]) = aliases[j]}

ContainingPositions(cols, aliases) ==
    {i \in 1..Len(cols) : \E j \in 1..Len(aliases) : IsSubstr(aliases[j], _canon(cols[i]))}

\* C9: an exact canonical match is preferred over a containing header, and
\* among several qualifying headers of the same level the first in column
\* order is selected.
C9_FirstInColumnOrder ==
    call.fn = "_find_value_col" =>
        LET e == ExactPositions(columns, call.options)
            c == ContainingPositions(columns, call.options)
        IN  IF e # {} THEN result = columns[MinOf(e)]
            ELSE IF c # {} THEN result = columns[MinOf(c)]
            ELSE result = None

(***************************************************************************)
(* Tables                                                                  *)
(*                                                                         *)
(* A table read by pd.read_excel is [columns, rows]: the header list and   *)
(* the rows, each the sequence of its cells in column order.  Every cell   *)
(* is a string; a missing cell is NaN.  An unreadable file is Unreadable.  *)
(***************************************************************************)
Unreadable == [columns |-> <<KeyError>>, rows |-> <<>>]

IndexOf(seq, x) == CHOOSE i \in 1..Len(seq) : seq[i] = x /\ \A j \in 1..(i - 1) : seq[j] # x

\* df[name] of row r
Cell(tab, r, name) == tab.rows[r][IndexOf(tab.columns, name)]

\* Code-point order of the characters that occur in sort keys
CodePointOrder ==
    <<" ", "-", ".", "0", "1", "2", "3", "4", "5", "6", "7", "8", "9",
      "A", "C", "I", "R", "S", "W", "a", "c", "d", "e", "g", "h", "i", "k", "l",
      "m", "n", "o", "p", "r", "s", "t", "u", "v">>

Ord(c) == CHOOSE i \in 1..Len(CodePointOrder) : CodePointOrder[i] = c

\* Python's str comparison: -1, 0 or 1
RECURSIVE StrCmp(_, _)
StrCmp(a, b) ==
    IF a = b THEN 0
    ELSE IF a = <<>> THEN -1
    ELSE IF b = <<>> THEN 1
    ELSE IF Head(a) = Head(b) THEN StrCmp(Tail(a), Tail(b))
    ELSE IF Ord(Head(a)) < Ord(Head(b)) THEN -1 ELSE 1

(***************************************************************************)
(* load_onet_values                                                        *)
(***************************************************************************)
LoadError(kind) == [ok |-> FALSE, err |-> kind, rows |-> <<>>]

Loaded(rows) == [ok |-> TRUE, err |-> "", rows |-> rows]

\* heuristic: the first header whose canonical form contains 'soc' and 'code'
RECURSIVE FirstSocCodeLike(_)
FirstSocCodeLike(cols) ==
    IF cols = <<>> THEN None
    ELSE LET cl == _canon(Head(cols))
         IN  IF IsSubstr(<<"s","o","c">>, cl) /\ IsSubstr(<<"c","o","d","e">>, cl)
             THEN Head(cols)
             ELSE FirstSocCodeLike(Tail(cols))

FindSocCol(cols) ==
    LET hit == _col_like(cols, soc_opts)
    IN  IF hit # None THEN hit ELSE FirstSocCodeLike(cols)

\* value_cols of the wide attempt: the hit of each of the six values
WideValueCols(cols) ==
    LET ch == canon_headers(cols)
    IN  [n \in 1..Len(VALUE_COLS_CANON) |-> _find_value_col(AliasesOf(VALUE_COLS_CANON[n]), ch)]

IsWide(cols) ==
    LET value_cols == WideValueCols(cols)
    IN  \A n \in 1..Len(VALUE_COLS_CANON) : value_cols[n] # None

\* drop_duplicates(subset=["SOC Code"], keep="last")
RECURSIVE DropDuplicatesKeepLast(_)
DropDuplicatesKeepLast(rows) ==
    IF rows = <<>> THEN <<>>
    ELSE LET init == SubSeq(rows, 1, Len(rows) - 1)
             last == rows[Len(rows)]
             keep == SelectSeq(init, LAMBDA r : r.soc # last.soc)
         IN  Append(DropDuplicatesKeepLast(keep), last)

\* drop_duplicates(subset=["SOC Code"], keep="first")
RECURSIVE DropDuplicates(_)
DropDuplicates(rows) ==
    IF rows = <<>> THEN <<>>
    ELSE LET first == Head(rows)
         IN  <<first>> \o DropDuplicates(SelectSeq(Tail(rows), LAMBDA r : r.soc # first.soc))

\* The wide branch: project, normalise the SOC code, rename, de-duplicate
LoadWide(tab, soc_col) ==
    LET value_cols == WideValueCols(tab.columns)
        out == [r \in 1..Len(tab.rows) |->
                   [soc  |-> norm_soc(Cell(tab, r, soc_col)),
                    vals |-> [n \in 1..Len(VALUE_COLS_CANON) |-> Cell(tab, r, value_cols[n])]]]
    IN  Loaded(DropDuplicates(out))

\* alias_to_value, in the order the code fills it
RECURSIVE AliasItems(_, _)
AliasItems(d, n) ==
    IF n > Len(VALUE_COLS_CANON) THEN d
    ELSE LET v == VALUE_COLS_CANON[n]
             aliases == VALUE_ALIASES[v]
             RECURSIVE Put(_, _)
             Put(dd, j) == IF j > Len(aliases) THEN dd
                           ELSE Put(DictPut(dd, _canon(aliases[j]), v), j + 1)
         IN  AliasItems(DictPut(Put(d, 1), _canon(v), v), n + 1)

alias_to_value == AliasItems(<<>>, 1)

\* df["_elem_canon"].map(alias_to_value)
TargetValue(elem) ==
    LET k == _canon(elem)
    IN  IF elem # NaN /\ k \in DictKeys(alias_to_value) THEN DictGet(alias_to_value, k) ELSE NaN

\* astype(str).str.lower().str.contains("importance")
IsImportance(scale) ==
    IsSubstr(A_importance,
             Lower(IF scale = NaN THEN <<"n","a","n">> ELSE scale))

\* The scale filter keeping a row whatever its scale when none is importance
NoScaleFilter(df, has_scale) == df

\* Prefer the 'importance' scale if available
ScaleFilter(df, has_scale) ==
    IF has_scale /\ \E i \in 1..Len(df) : IsImportance(df[i].scale)
    THEN SelectSeq(df, LAMBDA r : IsImportance(r.scale))
    ELSE df

\* pd.to_datetime(errors="coerce") on the date cells of the model: a
\* four-digit year parses to that year, anything else is NaT
NaT == -1

RECURSIVE DigitsValue(_)
DigitsValue(s) ==
    IF s = <<>> THEN 0
    ELSE 10 * DigitsValue(SubSeq(s, 1, Len(s) - 1))
         + (CHOOSE d \in 0..9 : <<"0","1","2","3","4","5","6","7","8","9">>[d + 1] = s[Len(s)])

to_datetime(cell) ==
    IF cell # NaN /\ Len(cell) = 4 /\ \A i \in 1..4 : IsDigit(cell[i])
    THEN DigitsValue(cell)
    ELSE NaT

\* sort_values(["SOC Code", "_target_value", "__date"]), missing dates last
SortKeyLeq(a, b) ==
    LET s == StrCmp(a.soc, b.soc)
        t == StrCmp(a.target, b.target)
    IN  IF s # 0 THEN s < 0
        ELSE IF t # 0 THEN t < 0
        ELSE IF b.date = NaT THEN TRUE
        ELSE IF a.date = NaT THEN FALSE
        ELSE a.date <= b.date

\* a stable sort: x goes after every element that is not greater
RECURSIVE InsertSorted(_, _)
InsertSorted(sorted, x) ==
    IF sorted = <<>> THEN <<x>>
    ELSE LET last == sorted[Len(sorted)]
         IN  IF SortKeyLeq(last, x) THEN Append(sorted, x)
             ELSE Append(InsertSorted(SubSeq(sorted, 1, Len(sorted) - 1), x), last)

RECURSIVE SortValues(_)
SortValues(df) ==
    IF df = <<>> THEN <<>>
    ELSE InsertSorted(SortValues(SubSeq(df, 1, Len(df) - 1)), df[Len(df)])

SameGroup(a, b) == a.soc = b.soc /\ a.target = b.target

\* groupby(["SOC Code", "_target_value"]).tail(1)
GroupTail(df) ==
    LET keep == {i \in 1..Len(df) : \A j \in (i + 1)..Len(df) : ~SameGroup(df[i], df[j])}
        RECURSIVE Pick(_)
        Pick(i) == IF i > Len(df) THEN <<>>
                   ELSE (IF i \in keep THEN <<df[i]>> ELSE <<>>) \o Pick(i + 1)
    IN  Pick(1)

\* If a Date column is present: latest date per (SOC, value)
LatestPerGroup(df, has_date) ==
    IF has_date
    THEN GroupTail(SortValues([i \in 1..Len(df) |-> [df[i] EXCEPT !.date = to_datetime(df[i].datecell)]]))
    ELSE df

\* aggfunc="last": the last non-missing Data Value of the group, else NaN
GroupLast(df, soc, target) ==
    LET g == SelectSeq(df, LAMBDA r : r.soc = soc /\ r.target = target /\ r.value # NaN)
    IN  IF g = <<>> THEN NaN ELSE g[Len(g)].value

\* the index of the pivot: the SOC codes of the groups that hold a value, sorted
RECURSIVE SortedSocs(_)
SortedSocs(S) ==
    IF S = {} THEN <<>>
    ELSE LET m == CHOOSE x \in S : \A y \in S : StrCmp(x, y) <= 0
         IN  <<m>> \o SortedSocs(S \ {m})

\* pivot_table(index="SOC Code", columns="_target_value", values="Data Value",
\* aggfunc="last"), then the six columns ensured and selected
PivotTable(df) ==
    LET socs == SortedSocs({df[i].soc : i \in {j \in 1..Len(df) : df[j].value # NaN}})
    IN  [k \in 1..Len(socs) |->
            [soc  |-> socs[k],
             vals |-> [n \in 1..Len(VALUE_COLS_CANON) |-> GroupLast(df, socs[k], VALUE_COLS_CANON[n])]]]

\* The long branch
LoadLong(tab, soc_col) ==
    LET cols    == tab.columns
        c_elem  == _col_like(cols, ELEMENT_OPTS)
        c_val   == _col_like(cols, DATA_VALUE_OPTS)
        c_scale == _col_like(cols, SCALE_OPTS)
        c_date  == _col_like(cols, DATE_OPTS)
    IN  IF c_elem = None \/ c_val = None THEN LoadError("neither wide nor long")
        ELSE
        LET df0 == [r \in 1..Len(tab.rows) |->
                      [soc      |-> norm_soc(Cell(tab, r, soc_col)),
                       target   |-> TargetValue(Cell(tab, r, c_elem)),
                       value    |-> Cell(tab, r, c_val),
                       scale    |-> IF c_scale # None THEN Cell(tab, r, c_scale) ELSE NaN,
                       datecell |-> IF c_date # None THEN Cell(tab, r, c_date) ELSE NaN,
                       date     |-> NaT,
                       row      |-> r]]
            df1 == SelectSeq(df0, LAMBDA r : r.target # NaN)
        IN  IF df1 = <<>> THEN LoadError("no work values in Element Name")
            ELSE LET df2 == ScaleFilter(df1, c_scale # None)
                     df3 == LatestPerGroup(df2, c_date # None)
                 IN  Loaded(DropDuplicates(PivotTable(df3)))

load_onet_values(source) ==
    IF source = Unreadable THEN LoadError("read failed")
    ELSE
    LET tab     == [source EXCEPT !.columns = StripHeaders(source.columns)]
        soc_col == FindSocCol(tab.columns)
    IN  IF soc_col = None THEN LoadError("no SOC code column")
        ELSE IF IsWide(tab.columns) THEN LoadWide(tab, soc_col)
        ELSE LoadLong(tab, soc_col)

(***************************************************************************)
(* load_onet_values on every bounded reference file                        *)
(***************************************************************************)
MaxRefRows == 2

RowTags == <<"r1", "r2", "r3", "r4", "r5">>

ColTags == <<"c1", "c2", "c3", "c4", "c5", "c6", "c7">>

S_2021 == <<"2","0","2","1">>
S_2023 == <<"2","0","2","3">>
S_n_a == <<"n","/","a">>
S_Work_Importance == <<"W","o","r","k"," ","I","m","p","o","r","t","a","n","c","e">>
S_SOC_Code_padded == <<" ","S","O","C"," ","C","o","d","e"," ">>

Col(name, kind) == [name |-> name, kind |-> kind]

WideLayout ==
    <<Col(S_SOC_Code_padded, "soc"), Col(S_Achievement_Score, "wval"),
      Col(S_Independence, "wval"), Col(S_Recognition, "wval"),
      Col(S_Relationships, "wval"), Col(S_Support, "wval"),
      Col(S_Working_Conditions, "wval")>>

LongLayout ==
    <<Col(S_OxNET_SOC_Code, "soc2"), Col(S_Element_Name, "elem"),
      Col(S_Scale_Name, "scale"), Col(S_Data_Value, "value"), Col(S_Date, "date")>>

LongNoDateLayout ==
    <<Col(S_OxNET_SOC_Code, "soc"), Col(S_Element_Name, "elem"),
      Col(S_Scale, "scale"), Col(S_Data_Value, "value")>>

LongNoScaleLayout ==
    <<Col(S_Occupation_Code, "soc"), Col(S_Element_Name, "elem"),
      Col(S_Data_Value, "value"), Col(S_Date, "date")>>

LongBareLayout ==
    <<Col(S_Element_Name, "elem"), Col(S_ONET_dash_SOC_Code, "soc"),
      Col(S_Data_Value, "value")>>

NoSocLayout == <<Col(S_Element_Name, "elem"), Col(S_Data_Value, "value")>>

NoValueLayout == <<Col(S_SOC_Code, "soc"), Col(S_Element_Name, "elem")>>

RefLayouts ==
    {WideLayout, LongLayout, LongNoDateLayout, LongNoScaleLayout,
     LongBareLayout, NoSocLayout, NoValueLayout}

SocCells == {S_13_1081, S_131081, S_15_1251}

\* the cells a column of a kind may hold; a value cell is told apart by the
\* row and the column it stands in
CellChoices(kind) ==
    CASE kind = "soc"   -> SocCells
      [] kind = "soc2"  -> {S_131081, S_15_1251}
      [] kind = "elem"  -> {S_Achievement, S_Relationship, S_Interests}
      [] kind = "scale" -> {S_Work_Importance, S_Level}
      [] kind = "date"  -> {S_2021, S_2023, S_n_a}
      [] OTHER          -> {<<"v">>}

\* every row of a layout: one cell per column, from column j on
RECURSIVE RowsFrom(_, _)
RowsFrom(layout, j) ==
    IF j > Len(layout) THEN {<<>>}
    ELSE LET rests == RowsFrom(layout, j + 1)
         IN  {<<c>> \o rest : c \in CellChoices(layout[j].kind), rest \in rests}

Names(layout) == [j \in 1..Len(layout) |-> layout[j].name]

\* row r of a file of this layout, its value cells tagged
TagCells(layout, r, row) ==
    [j \in 1..Len(layout) |->
        IF layout[j].kind \in {"value", "wval"} THEN <<"v", RowTags[r], ColTags[j]>>
        ELSE row[j]]

LayoutOf(layouts, tab) == CHOOSE layout \in layouts : Names(layout) = tab.columns

\* the file before its rows are written: unreadable, or a header line
LoadInit ==
    /\ l_pc = "file"
    /\ l_src \in {Unreadable} \cup {[columns |-> Names(layout), rows |-> <<>>] : layout \in RefLayouts}
    /\ l_out = LoadError("not called")

\* one more row of the reference file
RefRow ==
    /\ l_pc = "file"
    /\ l_src # Unreadable
    /\ Len(l_src.rows) < MaxRefRows
    /\ LET layout == LayoutOf(RefLayouts, l_src)
       IN  \E row \in RowsFrom(layout, 1) :
               l_src' = [l_src EXCEPT !.rows = Append(@, TagCells(layout, Len(@) + 1, row))]
    /\ UNCHANGED <<l_pc, l_out>>
    /\ UNCHANGED <<normVars, colVars, mainVars>>

Load ==
    /\ l_pc = "file"
    /\ l_out' = load_onet_values(l_src)
    /\ l_pc' = "loaded"
    /\ UNCHANGED l_src
    /\ UNCHANGED <<normVars, colVars, mainVars>>

LoadNext == RefRow \/ Load

(***************************************************************************)
(* What the source rows say, read off the file without the loader's steps  *)
(***************************************************************************)
HasCol(src, name) == \E j \in 1..Len(src.columns) : Strip(src.columns[j]) = name

\* the cell of row r in the column whose stripped header is one of names
SrcCell(src, r, names) ==
    src.rows[r][CHOOSE j \in 1..Len(src.columns) : Strip(src.columns[j]) \in names]

SocHeaders ==
    {S_SOC_Code, S_OxNET_SOC_Code, S_Occupation_Code, S_ONET_dash_SOC_Code}

SrcSoc(src, r) == norm_soc(SrcCell(src, r, SocHeaders))

SrcHasScale(src) == HasCol(src, S_Scale_Name) \/ HasCol(src, S_Scale)

SrcHasDate(src) == HasCol(src, S_Date)

SrcIsLong(src) ==
    /\ src # Unreadable
    /\ HasCol(src, S_Element_Name) /\ HasCol(src, S_Data_Value)
    /\ \E h \in SocHeaders : HasCol(src, h)

SrcIsWide(src) == src # Unreadable /\ HasCol(src, S_Working_Conditions)

\* the canonical forms an element name may have to stand for each value
ElementForms ==
    [n \in 1..Len(VALUE_COLS_CANON) |->
        {_canon(VALUE_COLS_CANON[n])} \cup
        {VALUE_ALIASES[VALUE_COLS_CANON[n]][j] : j \in 1..Len(VALUE_ALIASES[VALUE_COLS_CANON[n]])}]

\* the canonical value an element name stands for, or NaN
SrcTarget(src, r) ==
    LET e == _canon(SrcCell(src, r, {S_Element_Name}))
        hits == {n \in 1..Len(VALUE_COLS_CANON) : e \in ElementForms[n]}
    IN  IF hits = {} THEN NaN ELSE VALUE_COLS_CANON[CHOOSE n \in hits : TRUE]

\* what a source row says: its normalised code, its value name, its Data
\* Value, whether its scale is an importance scale, its parsed date
SrcRows(src) ==
    [r \in 1..Len(src.rows) |->
        [soc    |-> SrcSoc(src, r),
         target |-> SrcTarget(src, r),
         value  |-> SrcCell(src, r, {S_Data_Value}),
         importance |-> SrcHasScale(src) /\
                        IsSubstr(A_importance, Lower(SrcCell(src, r, {S_Scale_Name, S_Scale}))),
         date   |-> IF SrcHasDate(src) THEN to_datetime(SrcCell(src, r, {S_Date})) ELSE NaT]]

Mapped(rows) == {r \in 1..Len(rows) : rows[r].target # NaN}

\* the rows that may contribute to the pivot
Contributing(rows) ==
    LET important == {r \in Mapped(rows) : rows[r].importance}
    IN  IF important # {} THEN important ELSE Mapped(rows)

ValueIndex(v) == CHOOSE n \in 1..Len(VALUE_COLS_CANON) : VALUE_COLS_CANON[n] = v

\* the pivoted cell of (soc, v) in a loaded table, NaN when there is none
OutCell(out, soc, v) ==
    IF \E k \in 1..Len(out.rows) : out.rows[k].soc = soc
    THEN out.rows[CHOOSE k \in 1..Len(out.rows) : out.rows[k].soc = soc].vals[ValueIndex(v)]
    ELSE NaN

\* C3: the table load_onet_values returns has at most one row per normalised
\* SOC code, in the wide and in the long branch; in the wide branch the
\* surviving row of several that normalise to one code is the first in file
\* order (and every code of the file survives).
C3_OneRowPerSoc ==
    (l_pc = "loaded" /\ l_out.ok) =>
        /\ \A a, b \in 1..Len(l_out.rows) :
               l_out.rows[a].soc = l_out.rows[b].soc => a = b
        /\ SrcIsWide(l_src) =>
               /\ \A r \in 1..Len(l_src.rows) :
                      \E k \in 1..Len(l_out.rows) : l_out.rows[k].soc = SrcSoc(l_src, r)
               /\ \A k \in 1..Len(l_out.rows) :
                      \E r \in 1..Len(l_src.rows) :
                          /\ SrcSoc(l_src, r) = l_out.rows[k].soc
                          /\ \A q \in 1..(r - 1) : SrcSoc(l_src, q) # SrcSoc(l_src, r)
                          /\ \A n \in 1..Len(VALUE_COLS_CANON) :
                                 l_out.rows[k].vals[n] = l_src.rows[r][n + 1]

\* a wide file whose rows "13-1081" and "131081" collapsed to the first
C3_Witness ==
    /\ l_pc = "loaded" /\ l_out.ok
    /\ SrcIsWide(l_src)
    /\ Len(l_src.rows) = 2
    /\ l_src.rows[1][1] = S_13_1081
    /\ l_src.rows[2][1] = S_131081
    /\ Len(l_out.rows) = 1
    /\ l_out.rows[1].vals[1] = l_src.rows[1][2]

\* the row of a group the claim names: the greatest parsed date, the latest
\* in row order among equal dates; a row without a parsable date has no date
LatestRow(rows, K, soc, v) ==
    LET g == {r \in K : rows[r].soc = soc /\ rows[r].target = v}
        dated == {r \in g : rows[r].date # NaT}
        best == IF dated = {} THEN g
                ELSE {r \in dated : \A q \in dated : rows[q].date <= rows[r].date}
    IN  CHOOSE r \in best : \A q \in best : q <= r

\* C4: with a Date column, the pivoted cell of every (SOC code, value name)
\* group holds the Data Value of the chronologically latest row of the group.
C4_LatestDateWins ==
    (l_pc = "loaded" /\ l_out.ok /\ SrcIsLong(l_src) /\ SrcHasDate(l_src)) =>
        LET rows == SrcRows(l_src)
            K == Contributing(rows)
        IN  \A r \in K :
                OutCell(l_out, rows[r].soc, rows[r].target)
                    = rows[LatestRow(rows, K, rows[r].soc, rows[r].target)].value

\* C5: with a Scale Name column, if some element-mapped row has an
\* "importance" scale only those rows contribute to the pivot; if none has,
\* every element-mapped row is kept: each filled cell is the Data Value of a
\* contributing row of its group, and each contributing row's group has a
\* filled cell.
C5_ImportancePreferred ==
    (l_pc = "loaded" /\ SrcIsLong(l_src) /\ SrcHasScale(l_src)) =>
        LET rows == SrcRows(l_src)
            K == Contributing(rows)
        IN  Mapped(rows) # {} =>
                /\ l_out.ok
                /\ \A r \in K : OutCell(l_out, rows[r].soc, rows[r].target) # NaN
                /\ \A k \in 1..Len(l_out.rows) : \A n \in 1..Len(VALUE_COLS_CANON) :
                       l_out.rows[k].vals[n] # NaN =>
                           \E r \in K :
                               /\ rows[r].soc = l_out.rows[k].soc
                               /\ rows[r].target = VALUE_COLS_CANON[n]
                               /\ rows[r].value = l_out.rows[k].vals[n]

\* a later "Level" row lost its cell to an earlier "Work Importance" row
C5_Witness ==
    /\ l_pc = "loaded" /\ l_out.ok
    /\ SrcIsLong(l_src) /\ SrcHasScale(l_src) /\ ~SrcHasDate(l_src)
    /\ Len(l_src.rows) = 2
    /\ LET rows == SrcRows(l_src)
       IN  /\ Mapped(rows) = {1, 2}
           /\ Contributing(rows) = {1}
           /\ rows[1].soc = rows[2].soc
           /\ rows[1].target = rows[2].target
           /\ OutCell(l_out, rows[1].soc, rows[1].target) = rows[1].value

(***************************************************************************)
(* DataFrame operations used by main                                       *)
(***************************************************************************)
HasColumn(df, name) == \E j \in 1..Len(df.columns) : df.columns[j] = name

\* df[name] = cells: an existing column is overwritten, a new one appended
SetColumn(df, name, cells) ==
    IF HasColumn(df, name)
    THEN [df EXCEPT !.rows = [r \in 1..Len(df.rows) |->
                                 [df.rows[r] EXCEPT ![IndexOf(df.columns, name)] = cells[r]]]]
    ELSE [columns |-> Append(df.columns, name),
          rows    |-> [r \in 1..Len(df.rows) |-> Append(df.rows[r], cells[r])]]

\* df.rename(columns={old: new})
RenameColumn(df, old, new) ==
    [df EXCEPT !.columns = [j \in 1..Len(df.columns) |->
                               IF df.columns[j] = old THEN new ELSE df.columns[j]]]

\* the table load_onet_values returns, as a DataFrame
OnetFrame(loaded) ==
    [columns |-> <<S_SOC_Code>> \o VALUE_COLS_CANON,
     rows    |-> [k \in 1..Len(loaded.rows) |-> <<loaded.rows[k].soc>> \o loaded.rows[k].vals]]

\* validate="m:1": the right keys are unique
RightKeysUnique(right, key) ==
    \A a, b \in 1..Len(right.rows) :
        Cell(right, a, key) = Cell(right, b, key) => a = b

\* the right columns kept beside the key, suffixed where a left column has the name
RightColumnName(left, name) ==
    IF HasColumn(left, name) THEN name \o S_suffix_ONET ELSE name

RECURSIVE Flatten(_)
Flatten(seqs) == IF seqs = <<>> THEN <<>> ELSE Head(seqs) \o Flatten(Tail(seqs))

\* a join that keeps only the left rows with a match
InnerMerge(left, right, key) ==
    LET others == SelectSeq(right.columns, LAMBDA c : c # key)
        matches(r) == SelectSeq([k \in 1..Len(right.rows) |-> k],
                                LAMBDA k : Cell(right, k, key) = Cell(left, r, key))
        joined(r) == [m \in 1..Len(matches(r)) |->
                         left.rows[r] \o [j \in 1..Len(others) |->
                                             Cell(right, matches(r)[m], others[j])]]
    IN  [columns |-> left.columns \o [j \in 1..Len(others) |-> RightColumnName(left, others[j])],
         rows    |-> Flatten([r \in 1..Len(left.rows) |-> joined(r)])]

\* pd.merge(left, right, on=key, how="left", suffixes=("", "_ONET"))
LeftMerge(left, right, key) ==
    LET others == SelectSeq(right.columns, LAMBDA c : c # key)
        pad == [j \in 1..Len(others) |-> NaN]
        matches(r) == SelectSeq([k \in 1..Len(right.rows) |-> k],
                                LAMBDA k : Cell(right, k, key) = Cell(left, r, key))
        joined(r) == IF matches(r) = <<>> THEN <<left.rows[r] \o pad>>
                     ELSE [m \in 1..Len(matches(r)) |->
                              left.rows[r] \o [j \in 1..Len(others) |->
                                                  Cell(right, matches(r)[m], others[j])]]
    IN  [columns |-> left.columns \o [j \in 1..Len(others) |-> RightColumnName(left, others[j])],
         rows    |-> Flatten([r \in 1..Len(left.rows) |-> joined(r)])]

FRONT_COLS == <<S_Job_Title, S_HeadCount, S_SOC_Code, S_Occupational_Title>>

InSeq(x, seq) == \E i \in 1..Len(seq) : seq[i] = x

\* merged[front + vals + others]
OrderColumns(df) ==
    LET front == SelectSeq(FRONT_COLS, LAMBDA c : HasColumn(df, c))
        vals == SelectSeq(VALUE_COLS_CANON, LAMBDA c : HasColumn(df, c))
        others == SelectSeq(df.columns, LAMBDA c : ~InSeq(c, front \o vals))
        order == front \o vals \o others
    IN  [columns |-> order,
         rows    |-> [r \in 1..Len(df.rows) |-> [j \in 1..Len(order) |-> Cell(df, r, order[j])]]]

(***************************************************************************)
(* The output path of the retry loop                                       *)
(***************************************************************************)
\* os.path.splitext on a path without directory separators: the extension
\* starts at the last dot, a leading dot starts none
LastDot(path) ==
    LET dots == {i \in 2..Len(path) : path[i] = "."}
    IN  IF dots = {} THEN Len(path) + 1 ELSE CHOOSE i \in dots : \A j \in dots : j <= i

SplitBase(path) == SubSeq(path, 1, LastDot(path) - 1)

SplitExt(path) == SubSeq(path, LastDot(path), Len(path))

DigitChars == <<"0","1","2","3","4","5","6","7","8","9">>

\* str(n) of a natural number
RECURSIVE IntStr(_)
IntStr(n) == IF n < 10 THEN <<DigitChars[n + 1]>> ELSE IntStr(n \div 10) \o <<DigitChars[(n % 10) + 1]>>

\* the alternate name built on the name tried last
AlternateOfPrevious(orig, prev, n) ==
    SplitBase(prev) \o <<" ", "(">> \o IntStr(n) \o <<")">> \o SplitExt(prev)

\* f"{base} ({attempt}){ext}"
AlternatePath(orig, prev, n) ==
    SplitBase(orig) \o <<" ", "(">> \o IntStr(n) \o <<")">> \o SplitExt(orig)

MAX_ATTEMPT == 10

(***************************************************************************)
(* main                                                                    *)
(***************************************************************************)
NoExit == -1

NotLoaded == LoadError("not called")

NoFrame == [columns |-> <<>>, rows |-> <<>>]

NotFound == [job |-> None, soc |-> None, headcount |-> None, occ |-> None]

\* what main printed last: the text and the path it names
Printed(text, path) == [text |-> text, path |-> path]

MainInit(inputs, refs, paths) ==
    /\ pc = "read_input"
    /\ in_file \in inputs
    /\ ref_file \in refs
    /\ requested \in paths
    /\ in_df = NoFrame
    /\ found = NotFound
    /\ onet_df = NotLoaded
    /\ merged = NoFrame
    /\ attempt = 0
    /\ out_path = <<>>
    /\ tried = <<>>
    /\ saved = None
    /\ stdout = Printed("", <<>>)
    /\ exit_code = NoExit

Return(code, text, path) ==
    /\ pc' = "done"
    /\ exit_code' = code
    /\ stdout' = Printed(text, path)

\* lines 235-242: read the input file, strip its headers
ReadInput ==
    /\ pc = "read_input"
    /\ IF in_file = Unreadable
       THEN /\ Return(2, "ERROR: Failed to read input Excel", <<>>)
            /\ UNCHANGED in_df
       ELSE /\ in_df' = [in_file EXCEPT !.columns = StripHeaders(in_file.columns)]
            /\ pc' = "resolve"
            /\ UNCHANGED <<exit_code, stdout>>
    /\ UNCHANGED <<in_file, ref_file, requested, found, onet_df, merged, attempt, out_path, tried, saved>>
    /\ UNCHANGED <<normVars, colVars, loadVars>>

OrNone(hit) == IF hit = KeyError THEN None ELSE hit

\* lines 275-289: normalise and standardise the input columns
Standardize(df, f) ==
    LET df1 == SetColumn(df, S_SOC_Code, [r \in 1..Len(df.rows) |-> norm_soc(Cell(df, r, f.soc))])
        df2 == IF f.headcount = None
               THEN SetColumn(df1, S_HeadCount, [r \in 1..Len(df1.rows) |-> <<"1">>])
               ELSE RenameColumn(df1, f.headcount, S_HeadCount)
        df3 == IF f.occ # None
               THEN RenameColumn(df2, f.occ, S_Occupational_Title)
               ELSE SetColumn(df2, S_Occupational_Title,
                              [r \in 1..Len(df2.rows) |->
                                  IF f.job = None THEN <<>> ELSE Cell(df2, r, f.job)])
    IN  IF f.job # None /\ f.job # S_Job_Title
        THEN RenameColumn(df3, f.job, S_Job_Title)
        ELSE df3

\* the four lookups with a missing job title failing like a missing SOC code
ResolveJobRequired(cols) ==
    [job       |-> find_col(cols, JOB_OPTS),
     soc       |-> IF find_col(cols, JOB_OPTS) = KeyError THEN KeyError
                   ELSE find_col(cols, SOC_OPTS_IN),
     headcount |-> OrNone(find_col(cols, HEADCOUNT_OPTS)),
     occ       |-> OrNone(find_col(cols, OCC_TITLE_OPTS))]

\* lines 244-273: the four lookups; only the SOC code lookup lets its KeyError out
Resolve(cols) ==
    [job       |-> OrNone(find_col(cols, JOB_OPTS)),
     soc       |-> find_col(cols, SOC_OPTS_IN),
     headcount |-> OrNone(find_col(cols, HEADCOUNT_OPTS)),
     occ       |-> OrNone(find_col(cols, OCC_TITLE_OPTS))]

\* lines 244-289
ResolveColumns ==
    /\ pc = "resolve"
    /\ LET f == Resolve(in_df.columns)
       IN  IF f.soc = KeyError
           THEN /\ Return(3, "ERROR: Input file must include a 'SOC Code' column.", <<>>)
                /\ found' = [f EXCEPT !.soc = None]
                /\ UNCHANGED in_df
           ELSE /\ found' = f
                /\ in_df' = Standardize(in_df, f)
                /\ pc' = "load"
                /\ UNCHANGED <<exit_code, stdout>>
    /\ UNCHANGED <<in_file, ref_file, requested, onet_df, merged, attempt, out_path, tried, saved>>
    /\ UNCHANGED <<normVars, colVars, loadVars>>

\* lines 291-296
LoadOnet ==
    /\ pc = "load"
    /\ onet_df' = load_onet_values(ref_file)
    /\ IF onet_df'.ok
       THEN pc' = "merge" /\ UNCHANGED <<exit_code, stdout>>
       ELSE Return(4, "ERROR: Failed to load O*NET Work Values", <<>>)
    /\ UNCHANGED <<in_file, ref_file, requested, in_df, found, merged, attempt, out_path, tried, saved>>
    /\ UNCHANGED <<normVars, colVars, loadVars>>

\* lines 298-309: an m:1 violation raises MergeError, which nothing catches
Merge ==
    /\ pc = "merge"
    /\ LET right == OnetFrame(onet_df)
       IN  IF RightKeysUnique(right, S_SOC_Code)
           THEN /\ merged' = OrderColumns(LeftMerge(in_df, right, S_SOC_Code))
                /\ out_path' = requested
                /\ attempt' = 0
                /\ pc' = "write"
           ELSE /\ pc' = "crashed"
                /\ UNCHANGED <<merged, out_path, attempt>>
    /\ UNCHANGED <<in_file, ref_file, requested, in_df, found, onet_df, tried, saved, exit_code, stdout>>
    /\ UNCHANGED <<normVars, colVars, loadVars>>

\* one call of merged.to_excel(out_path) and how it ended
Attempted(path, outcome) == [path |-> path, outcome |-> outcome]

\* lines 312-313, 321-325: the write succeeds
WriteOk ==
    /\ pc = "write"
    /\ tried' = Append(tried, Attempted(out_path, "ok"))
    /\ saved' = out_path
    /\ Return(0, "Saved", out_path)
    /\ UNCHANGED <<in_file, ref_file, requested, in_df, found, onet_df, merged, attempt, out_path>>
    /\ UNCHANGED <<normVars, colVars, loadVars>>

\* lines 314-319: the write raises PermissionError
WriteLocked ==
    /\ pc = "write"
    /\ tried' = Append(tried, Attempted(out_path, "locked"))
    /\ attempt' = attempt + 1
    /\ out_path' = AlternatePath(requested, out_path, attempt + 1)
    /\ IF attempt + 1 > MAX_ATTEMPT
       THEN Return(5, "ERROR: Could not write output after multiple attempts (file locked?).", <<>>)
       ELSE UNCHANGED <<pc, exit_code, stdout>>
    /\ UNCHANGED <<in_file, ref_file, requested, in_df, found, onet_df, merged, saved>>
    /\ UNCHANGED <<normVars, colVars, loadVars>>

\* line 312: the write raises another exception (an OSError that is not a
\* PermissionError, a ValueError), which nothing catches
WriteFails ==
    /\ pc = "write"
    /\ tried' = Append(tried, Attempted(out_path, "error"))
    /\ pc' = "crashed"
    /\ UNCHANGED <<in_file, ref_file, requested, in_df, found, onet_df, merged, attempt, out_path, saved, exit_code, stdout>>
    /\ UNCHANGED <<normVars, colVars, loadVars>>

MainNext ==
    \/ ReadInput
    \/ ResolveColumns
    \/ LoadOnet
    \/ Merge
    \/ WriteOk
    \/ WriteLocked
    \/ WriteFails

\* the runs of main whose every write succeeds
MergeNext ==
    \/ ReadInput
    \/ ResolveColumns
    \/ LoadOnet
    \/ Merge
    \/ WriteOk

(***************************************************************************)
(* The files and paths main is run on                                      *)
(***************************************************************************)
MaxMainRows == 1
MaxInRows == 2
MaxMergeRefRows == 1

\* every table of at most maxRows rows of a layout
Tables(layout, maxRows) ==
    LET rowSet == RowsFrom(layout, 1)
    IN  {[columns |-> Names(layout),
          rows    |-> [r \in 1..Len(f) |-> TagCells(layout, r, f[r])]] :
            f \in UNION {[1..n -> rowSet] : n \in 0..maxRows}}

FullInLayout ==
    <<Col(S_Job_Title, "text"), Col(S_HeadCount, "text"),
      Col(S_SOC_Code, "soc"), Col(S_Occupational_Title, "text")>>

NoJobInLayout == <<Col(S_SOC, "soc"), Col(S_Head_Count, "text")>>

NoSocInLayout == <<Col(S_Job_Title, "text"), Col(S_HC, "text"), Col(S_Title, "text")>>

JobSocInLayout == <<Col(S_Job_Titles, "text"), Col(S_ONET_Code, "soc")>>

NotesInLayout == <<Col(S_Notes, "text")>>

PassthroughInLayout ==
    <<Col(S_Job_Title, "text"), Col(S_soc_code_lc, "soc"), Col(S_Notes, "text")>>

ValueNamedInLayout == <<Col(S_Code, "soc"), Col(S_Achievement, "text")>>

MainInLayouts ==
    {FullInLayout, NoJobInLayout, NoSocInLayout, JobSocInLayout, NotesInLayout}

MergeInLayouts == {PassthroughInLayout, ValueNamedInLayout, JobSocInLayout}

OutPaths ==
    {[base |-> <<"o","u","t">>, ext |-> <<".","x","l","s","x">>],
     [base |-> <<"w","v",".","o","u","t">>, ext |-> <<".","x","l","s">>]}

MainInitAll ==
    MainInit({Unreadable} \cup UNION {Tables(layout, MaxMainRows) : layout \in MainInLayouts},
             {Unreadable} \cup Tables(WideLayout, MaxMainRows) \cup Tables(NoSocLayout, MaxMainRows),
             {p.base \o p.ext : p \in OutPaths})

MergeInit ==
    MainInit(UNION {Tables(layout, MaxInRows) : layout \in MergeInLayouts},
             Tables(WideLayout, MaxMergeRefRows) \cup Tables(LongBareLayout, MaxMergeRefRows),
             {<<"o","u","t",".","x","l","s","x">>})

(***************************************************************************)
(* Claims about main                                                       *)
(***************************************************************************)
Merged == pc = "write" \/ (pc = "done" /\ exit_code \in {0, 5}) \/ (pc = "crashed" /\ tried # <<>>)

\* the value the reference table holds for a SOC code, NaN when it has no row
RefValue(soc, n) ==
    IF \E k \in 1..Len(onet_df.rows) : onet_df.rows[k].soc = soc
    THEN onet_df.rows[CHOOSE k \in 1..Len(onet_df.rows) : onet_df.rows[k].soc = soc].vals[n]
    ELSE NaN

\* the SOC code of input row r, from the file
InputSoc(r) == norm_soc(Cell(in_file, r, found.soc))

RowsPreserved ==
    /\ Len(merged.rows) = Len(in_file.rows)
    /\ \A r \in 1..Len(merged.rows) : \A j \in 1..Len(in_df.columns) :
           Cell(merged, r, in_df.columns[j]) = in_df.rows[r][j]
    /\ \A r \in 1..Len(merged.rows) : \A j \in 1..Len(in_file.columns) :
           in_file.columns[j] \notin {found.job, found.headcount, found.occ, S_SOC_Code}
               => Cell(merged, r, in_file.columns[j]) = in_file.rows[r][j]

C7_EveryFailureReported ==
    /\ pc # "crashed"
    /\ pc = "done" => (exit_code \in {0, 2, 3, 4, 5} /\ stdout.text # "")
    /\ exit_code = 0 => saved # None

\* what the input file's headers say, without the resolver
HasHeaderLike(tab, forms) ==
    tab # Unreadable /\ \E j \in 1..Len(tab.columns) : _canon(tab.columns[j]) \in forms

JobTitleForms == {<<"j","o","b","t","i","t","l","e">>, <<"j","o","b","t","i","t","l","e","s">>}

SocCodeForms ==
    {<<"s","o","c","c","o","d","e">>, <<"s","o","c">>, <<"c","o","d","e">>,
     <<"o","n","e","t","s","o","c","c","o","d","e","s">>, <<"o","n","e","t","s","o","c","c","o","d","e">>,
     <<"o","n","e","t","c","o","d","e","s">>, <<"o","n","e","t","c","o","d","e">>}

HeadCountForms == {<<"h","e","a","d","c","o","u","n","t">>, <<"h","c">>}

OccTitleForms ==
    {<<"o","c","c","u","p","a","t","i","o","n","a","l","t","i","t","l","e">>,
     <<"o","c","c","u","p","a","t","i","o","n","t","i","t","l","e">>,
     <<"o","n","e","t","t","i","t","l","e">>, <<"t","i","t","l","e">>}

Resolved == pc \notin {"read_input", "resolve"} /\ in_file # Unreadable

FailedEarly ==
    /\ pc = "done" /\ exit_code = 3
    /\ onet_df = NotLoaded /\ tried = <<>> /\ saved = None

\* C8 as stated: without a job-title column, or without a SOC-code column,
\* main fails (nonzero exit, no reference load, no output written).
C8_JobTitleAndSocRequired ==
    (Resolved /\ (~HasHeaderLike(in_file, JobTitleForms) \/ ~HasHeaderLike(in_file, SocCodeForms)))
        => FailedEarly

\* C8, amended: the SOC code is the only required input column.  Without it
\* main returns 3 with no reference load and no write.  With it the run goes
\* on to the reference load whether or not there is a job-title column: an
\* absent headcount column gives HeadCount = 1, an absent occupational-title
\* column gives the job title, or "" when the job title is absent too.
C8_OnlySocRequired ==
    Resolved =>
        IF ~HasHeaderLike(in_file, SocCodeForms) THEN FailedEarly
        ELSE /\ exit_code # 3
             /\ pc # "load" => onet_df # NotLoaded
             /\ HasColumn(in_df, S_HeadCount) /\ HasColumn(in_df, S_Occupational_Title)
             /\ \A r \in 1..Len(in_df.rows) :
                    /\ ~HasHeaderLike(in_file, HeadCountForms) => Cell(in_df, r, S_HeadCount) = <<"1">>
                    /\ ~HasHeaderLike(in_file, OccTitleForms) =>
                           Cell(in_df, r, S_Occupational_Title) =
                               (IF HasHeaderLike(in_file, JobTitleForms)
                                THEN Cell(in_df, r, S_Job_Title) ELSE <<>>)

\* a file with a SOC code but no job title, headcount or occupational title
\* went through to a written output
C8_Witness ==
    /\ pc = "done" /\ exit_code = 0
    /\ HasHeaderLike(in_file, SocCodeForms)
    /\ ~HasHeaderLike(in_file, JobTitleForms)
    /\ ~HasHeaderLike(in_file, OccTitleForms)
    /\ Len(in_df.rows) = 1
    /\ Cell(in_df, 1, S_Occupational_Title) = <<>>

\* the name of attempt n, from the parts of the requested path
ExpectedPath(n) ==
    LET p == CHOOSE q \in OutPaths : q.base \o q.ext = requested
    IN  IF n = 0 THEN requested
        ELSE p.base \o <<" ", "(">> \o IntStr(n) \o <<")">> \o p.ext

\* C10: the retry loop makes at most 11 write attempts, on the requested path
\* and then on "<base> (N)<ext>" for N = 1..10, each built on the original
\* base; it stops at the first successful write, returns 0 and reports the
\* path written; it returns 5 only when every attempted path was locked.
C10_BoundedRetry ==
    /\ Len(tried) <= MAX_ATTEMPT + 1
    /\ \A k \in 1..Len(tried) : tried[k].path = ExpectedPath(k - 1)
    /\ \A k \in 1..(Len(tried) - 1) : tried[k].outcome = "locked"
    /\ pc = "write" =>
           /\ attempt <= MAX_ATTEMPT /\ Len(tried) = attempt
           /\ out_path = ExpectedPath(attempt)
           /\ \A k \in 1..Len(tried) : tried[k].outcome = "locked"
    /\ (tried # <<>> /\ tried[Len(tried)].outcome = "ok") =>
           /\ pc = "done" /\ exit_code = 0
           /\ saved = tried[Len(tried)].path
           /\ stdout = Printed("Saved", saved)
    /\ exit_code = 0 => (tried # <<>> /\ tried[Len(tried)].outcome = "ok")
    /\ exit_code = 5 =>
           /\ pc = "done" /\ saved = None
           /\ Len(tried) = MAX_ATTEMPT + 1
           /\ \A k \in 1..Len(tried) : tried[k].outcome = "locked"

\* ten locked paths, then the write of "<base> (10)<ext>" succeeded
C10_Witness ==
    /\ pc = "done" /\ exit_code = 0
    /\ Len(tried) = MAX_ATTEMPT + 1
    /\ saved = ExpectedPath(MAX_ATTEMPT)
    /\ saved # requested

(***************************************************************************)
(* Specifications                                                          *)
(***************************************************************************)
NormIdle == n_pc = "idle" /\ n_in = None /\ n_out = None /\ n_again = None

ColsIdle == columns = <<>> /\ call = NoCall /\ result = None

LoadIdle == l_pc = "idle" /\ l_src = Unreadable /\ l_out = NotLoaded

MainIdle ==
    /\ pc = "idle" /\ in_file = Unreadable /\ ref_file = Unreadable /\ requested = <<>>
    /\ in_df = NoFrame /\ found = NotFound /\ onet_df = NotLoaded /\ merged = NoFrame
    /\ attempt = 0 /\ out_path = <<>> /\ tried = <<>> /\ saved = None
    /\ stdout = Printed("", <<>>) /\ exit_code = NoExit

\* norm_soc on every bounded string
InitNorm == NormInit /\ ColsIdle /\ LoadIdle /\ MainIdle

SpecNorm == InitNorm /\ [][NormNext]_vars

\* the resolvers on every bounded header list
InitCols == ColsInit /\ NormIdle /\ LoadIdle /\ MainIdle

SpecCols == InitCols /\ [][ColsNext]_vars

\* load_onet_values on every bounded reference file
InitLoad == LoadInit /\ NormIdle /\ ColsIdle /\ MainIdle

SpecLoad == InitLoad /\ [][LoadNext]_vars

\* main, under every outcome of its reads and writes
InitMain == MainInitAll /\ NormIdle /\ ColsIdle /\ LoadIdle

SpecMain == InitMain /\ [][MainNext]_vars

\* main on larger tables, its output path writable
InitMerge == MergeInit /\ NormIdle /\ ColsIdle /\ LoadIdle

SpecMerge == InitMerge /\ [][MergeNext]_vars

====
